---- MODULE Spec2Model ----
(***************************************************************************)
(* Batch conversion pipeline of the HEIC/image converter pages:            *)
(*   "image"   ImageConverter   (src/unnamed/part_000, lines 36-1147)      *)
(*   "heic"    HeicConverter    (src/unnamed/part_009)                     *)
(*   "session" HeicConverter    (src/app/session/[id]/page.tsx)            *)
(* The three React components keep the same state (files, convertedImages, *)
(* isConverting, conversionProgress, ...); the variable page says which    *)
(* component is mounted.                                                   *)
(*                                                                         *)
(* A step is one task of the browser's event loop: an event handler, or an *)
(* async function from the await that returned to the next await it        *)
(* reaches, together with the render that commits the state it set and the *)
(* effects of that render.                                                 *)
(*                                                                         *)
(* Spec        the pages: the user's operations, the expiration timer and  *)
(*             the convert calls, for a format selection made beforehand   *)
(* SpecOptions the format checkboxes of ConversionOptions                  *)
(* SpecNaming  the name given to a converted file, over many input names   *)
(* SpecRename  single and batch rename, over file names with and without   *)
(*             an extension and with edits stored                          *)
(* SpecBatches one convert call on a list long enough for a second batch   *)
(* SpecEditor  the canvas editor of ImageConverter: rotation, crop, save   *)
(* SpecLive    the pages from a list of added files, with every await and  *)
(*             every worker reply returning in the end (weak fairness)     *)
(*                                                                         *)
(* A JavaScript string is a sequence of one-character strings; a few long  *)
(* literals (messages) are kept as one token. A Blob is kept as whose      *)
(* pixels it holds, whether they went through the editor, and the encoding *)
(* of its bytes.                                                           *)
(***************************************************************************)
EXTENDS Integers, Sequences, FiniteSets, TLC

\* ------------------------------------------------------------------ bounds
MaxFiles == 2
MaxCalls == 2
MaxSteps == 5
MaxNameParts == 3

\* ------------------------------------------------------- program constants
HeicBatchSize == 5
ExpiryMinutes == 30

\* ----------------------------------------------------------------- strings
Max(a, b) == IF a > b THEN a ELSE b
Min(a, b) == IF a < b THEN a ELSE b

\* String.prototype.substring(0, n): n below 0 counts as 0, n above the length as
\* the length.
Substring0(s, n) == SubSeq(s, 1, Max(0, Min(n, Len(s))))

LowerOf(ch) ==
  CASE ch = "H" -> "h" [] ch = "E" -> "e" [] ch = "I" -> "i" [] ch = "C" -> "c"
    [] OTHER -> ch

UpperOf(ch) ==
  CASE ch = "j" -> "J" [] ch = "p" -> "P" [] ch = "e" -> "E" [] ch = "g" -> "G"
    [] ch = "n" -> "N" [] ch = "w" -> "W" [] ch = "b" -> "B" [] OTHER -> ch

toLowerCase(s) == [i \in 1..Len(s) |-> LowerOf(s[i])]
toUpperCase(s) == [i \in 1..Len(s) |-> UpperOf(s[i])]

endsWith(s, suffix) ==
  /\ Len(s) >= Len(suffix)
  /\ SubSeq(s, Len(s) - Len(suffix) + 1, Len(s)) = suffix

LastDot(s) ==
  LET dots == {i \in 1..Len(s) : s[i] = "."}
  IN  IF dots = {} THEN 0 ELSE CHOOSE i \in dots : \A j \in dots : j <= i

\* name.split(".").pop(): what follows the last ".", the whole string when it holds
\* none.
SplitPop(s) == SubSeq(s, LastDot(s) + 1, Len(s))

\* x || fallback on strings: the empty string is falsy.
OrElse(s, fallback) == IF s = << >> THEN fallback ELSE s

DotHeic == <<".", "h", "e", "i", "c">>

FormatChars(format) ==
  CASE format = "jpeg" -> <<"j", "p", "e", "g">>
    [] format = "png"  -> <<"p", "n", "g">>
    [] format = "webp" -> <<"w", "e", "b", "p">>

\* --------------------------------------------------------- output naming
\* ImageConverter.handleConvert: originalExt, baseName, newFileName.
newFileName(name, format) ==
  LET originalExt == OrElse(SplitPop(name), << >>)
      baseName    == Substring0(name, Len(name) - Len(originalExt) - 1)
  IN  baseName \o <<".">> \o FormatChars(format)

\* HeicConverter: file.name.replace(/\.heic$/i, `.${format}`).
replaceHeicSuffix(name, format) ==
  IF endsWith(toLowerCase(name), DotHeic)
  THEN SubSeq(name, 1, Len(name) - Len(DotHeic)) \o <<".">> \o FormatChars(format)
  ELSE name

\* The MIME type given to the produced File.
MimeOfImage(format) ==
  IF format = "webp" THEN "image/webp"
  ELSE IF format = "jpeg" THEN "image/jpeg"
  ELSE "image/png"

MimeOfHeic(format) ==
  IF format = "webp" THEN "image/webp"
  ELSE IF format = "jpeg" THEN "image/jpeg"
  ELSE "image/png"

\* `image/${format}` as compared with file.type.
ImageSlash(format) ==
  CASE format = "jpeg" -> "image/jpeg" [] format = "png" -> "image/png"
    [] format = "webp" -> "image/webp"

\* ------------------------------------------------------------ blobs, codec
\* A Blob: whose pixels (data), whether they went through the editor (edited),
\* the encoding of the bytes (enc), and, when the bytes came out of the re-encode
\* pass, the encoding of the payload that went into it (encodedFrom).
Blob(data, edited, enc) ==
  [data |-> data, edited |-> edited, enc |-> enc, encodedFrom |-> << >>]

\* heic2any({blob, toType, quality}): the decode collaborator returns the pixels
\* in the encoding asked for.
heic2any(blob, toType) == [blob EXCEPT !.enc = toType]

\* convertImageFormat / convertToWebP: draw on a canvas, canvas.toBlob(mimeType).
convertImageFormat(blob, format) ==
  [blob EXCEPT !.enc = format, !.encodedFrom = <<blob.enc>>]
convertToWebP(blob) == [blob EXCEPT !.enc = "webp", !.encodedFrom = <<blob.enc>>]

\* ------------------------------------------------------------------ files
\* A File: name, type (the MIME type the browser reports) and its bytes.
File(name, type, bytes) == [name |-> name, type |-> type, bytes |-> bytes]

FileA == File(<<"a", ".", "h", "e", "i", "c">>, "image/heic", Blob(1, FALSE, "heic"))
FileC == File(<<"c">>, "image/jpeg", Blob(2, FALSE, "jpeg"))

\* What the uploader can hand to handleFilesAdded.
Catalogue == {FileA, FileC}

\* What the rename dialog can submit (trimmed, not empty).
NewNames == {<<"n">>}

Formats == {"jpeg", "png", "webp"}
Pages == {"image", "heic", "session"}

isHeic(file) ==
  endsWith(toLowerCase(file.name), DotHeic) \/ file.type = "image/heic"

\* null where a Date may stand: expirationTime is << >> or <<time>>.
Null == << >>

\* A value that may be absent: << >> or <<x>>.
None == << >>
Some(x) == <<x>>

ZeroProgress ==
  [totalFiles |-> 0, completedFiles |-> 0, currentFile |-> << >>, errors |-> << >>]

RemoveAt(seq, i) == [j \in 1..(Len(seq) - 1) |-> IF j < i THEN seq[j] ELSE seq[j + 1]]

\* A Record<string, T>: a function on the keys present.
NoEdits == << >>
HasKey(rec, key) == key \in DOMAIN rec
DeleteKey(rec, key) == [k \in (DOMAIN rec) \ {key} |-> rec[k]]
PutKey(rec, key, val) ==
  [k \in (DOMAIN rec) \cup {key} |-> IF k = key THEN val ELSE rec[k]]

\* ------------------------------------------------------------------ state
VARIABLES
  page,                 \* which component is mounted
  worker,               \* workerRef.current is a Worker (session page)
  files,                \* useState<File[]>
  convertedImages,      \* useState<{file, url, format}[]>
  isConverting,         \* useState(false)
  formats,              \* useState<OutputFormat[]> (heic page: the one format)
  fileEdits,            \* useState<Record<string, ...>>
  editingFile,          \* useState<{file, previewUrl} | null>
  conversionProgress,   \* useState<ConversionProgress>
  expirationTime,       \* useState<Date | null>
  pendingConversions,   \* useState<string[]> (session page)
  inbox,                \* the worker's replies not yet delivered to onmessage
  calls,                \* the handleConvert activations in flight
  objectURLs,           \* the URLs of URL.createObjectURL not yet revoked
  totalConversions,     \* totalConversions of the stats kept in localStorage
  toast,                \* the notification the last step showed, if it showed one
  editor,               \* the state of the ImageEditor dialog
  settled,              \* the activation that settled in the last step, if one did
  toggled,              \* the arguments of the last step's handleFormatChange, if any
  lastOp,               \* the operation of the last step and what it found
  steps                 \* how many operations the user and the timer have performed

vars ==
  <<page, worker, files, convertedImages, isConverting, formats, fileEdits,
    editingFile, conversionProgress, expirationTime, pendingConversions, inbox,
    calls, objectURLs, totalConversions, toast, editor, settled, toggled, lastOp,
    steps>>

\* The ImageEditor dialog: the image it loaded (img), its state (rotation,
\* isCropping, cropRect), cropStartRef.current, the size of its canvas, and what
\* handleSave handed to onSave (saved): the size of the blob, the region of the
\* canvas it was cut from when a crop was applied, and the settings.
Rect(x, y, width, height) == [x |-> x, y |-> y, width |-> width, height |-> height]
Size(width, height) == [width |-> width, height |-> height]

OpenEditor(img) ==
  [img |-> img, rotation |-> 0, isCropping |-> FALSE, cropRect |-> Rect(0, 0, 0, 0),
   cropStart |-> << >>, canvas |-> img, saved |-> << >>]

\* No file is being edited.
NoEditor == OpenEditor(Size(0, 0))

\* The format selections a run starts from.
FormatSelections == {<<"jpeg">>, <<"webp">>, <<"png", "jpeg">>}

InitOn(pages) ==
  /\ page \in pages
  /\ worker \in (IF page = "session" THEN BOOLEAN ELSE {FALSE})
  /\ formats \in (IF page = "heic" THEN {<<f>> : f \in Formats} ELSE FormatSelections)
  /\ files = << >>
  /\ convertedImages = << >>
  /\ isConverting = FALSE
  /\ fileEdits = NoEdits
  /\ editingFile = None
  /\ conversionProgress = ZeroProgress
  /\ expirationTime = Null
  /\ pendingConversions = << >>
  /\ inbox = << >>
  /\ calls = << >>
  /\ objectURLs = {}
  /\ totalConversions = 0
  /\ toast = None
  /\ editor = NoEditor
  /\ settled = None
  /\ toggled = None
  /\ lastOp = None
  /\ steps = 0

\* new Date(): the clock reading of a step; a later step reads a later time.
Now == steps

\* What the last step was, if the user or the timer took it: the operation, what
\* it was given (arg), and the state it started from.
Before(op, arg) ==
  Some([op |-> op, arg |-> arg, files |-> files, fileEdits |-> fileEdits,
        convertedImages |-> convertedImages, expirationTime |-> expirationTime])

\* --------------------------------------------------------- render + effects
\* The effect waits for a conversion without errors.
AllComplete_NeedsNoErrors(ic, pc, cp) ==
  page = "session" /\ ic /\ pc = << >> /\ cp.completedFiles > 0 /\ cp.errors = << >>

\* The session page's effect on [isConverting, pendingConversions.length,
\* completedFiles, ...]: all conversions complete.
AllComplete(ic, pc, cp) ==
  page = "session" /\ ic /\ pc = << >> /\ cp.completedFiles > 0

\* The effect sets a new expiration time after every render that shows files.
Commit_SetsTimeOnEveryRender(f, ci, ic, fe, ef, cp, et, pc) ==
  /\ files' = f
  /\ convertedImages' = ci
  /\ fileEdits' = fe
  /\ editingFile' = ef
  /\ pendingConversions' = pc
  /\ expirationTime' = IF Len(f) > 0 THEN <<Now + ExpiryMinutes>> ELSE et
  /\ isConverting' = IF AllComplete(ic, pc, cp) THEN FALSE ELSE ic
  /\ conversionProgress' =
       IF AllComplete(ic, pc, cp) THEN [cp EXCEPT !.currentFile = << >>] ELSE cp

\* A render commits the values the handler set, then the effects run: the
\* expiration effect sets a timestamp when there are files and none is set; the
\* session page's settlement effect ends the conversion.
Commit(f, ci, ic, fe, ef, cp, et, pc) ==
  /\ files' = f
  /\ convertedImages' = ci
  /\ fileEdits' = fe
  /\ editingFile' = ef
  /\ pendingConversions' = pc
  /\ expirationTime' = IF Len(f) > 0 /\ et = Null THEN <<Now + ExpiryMinutes>> ELSE et
  /\ isConverting' = IF AllComplete(ic, pc, cp) THEN FALSE ELSE ic
  /\ conversionProgress' =
       IF AllComplete(ic, pc, cp) THEN [cp EXCEPT !.currentFile = << >>] ELSE cp

\* One operation of the user (or of the expiration timer): it leaves the
\* activations in flight alone.
UserStep ==
  /\ steps < MaxSteps
  /\ steps' = steps + 1
  /\ settled' = None
  /\ toggled' = None
  /\ toast' = None
  /\ UNCHANGED <<editor, page, worker, formats, calls, inbox, totalConversions>>

\* toast({title, description}) at the end of a conversion: the summary made of
\* successCount and errorCount.
SummaryToast(successCount, errorCount) ==
  IF successCount > 0
  THEN [title |-> "Conversion complete",
        description |-> <<"Successfully converted", successCount>>
                          \o (IF errorCount > 0 THEN <<errorCount, "failed">> ELSE << >>)]
  ELSE [title |-> "Conversion failed",
        description |-> <<"No files were converted successfully.">>]

\* The toast of handleConvert's outer catch block.
ErrorToast ==
  [title |-> "Conversion failed",
   description |-> <<"There was an error during conversion.">>]

\* The toast of the session page's settlement effect: it counts the state's
\* convertedImages and conversionProgress.errors.
EffectToast(ci, ic, cp, pc) ==
  IF AllComplete(ic, pc, cp) THEN Some(SummaryToast(Len(ci), Len(cp.errors))) ELSE None

\* -------------------------------------------------------------- user steps
handleFilesAdded(newFiles) ==
  LET idx      == {i \in 1..Len(newFiles) : page = "image" \/ isHeic(newFiles[i])}
      accepted == [i \in 1..Cardinality(idx) |->
                    newFiles[CHOOSE j \in idx : Cardinality({k \in idx : k < j}) = i - 1]]
  IN  /\ Len(files) + Len(newFiles) <= MaxFiles
      /\ Commit(files \o accepted, convertedImages, isConverting, fileEdits,
                editingFile, conversionProgress, expirationTime, pendingConversions)
      /\ objectURLs' = objectURLs
      /\ lastOp' = Before("add", 0)
      /\ UserStep

handleRemoveFile(indexToRemove) ==
  LET fileToRemove == files[indexToRemove]
      edits == IF page = "image" /\ HasKey(fileEdits, fileToRemove.name)
               THEN DeleteKey(fileEdits, fileToRemove.name)
               ELSE fileEdits
      et    == IF Len(files) = 1 THEN Null ELSE expirationTime
  IN  /\ indexToRemove \in 1..Len(files)
      /\ Commit(RemoveAt(files, indexToRemove), convertedImages, isConverting, edits,
                editingFile, conversionProgress, et, pendingConversions)
      /\ objectURLs' = objectURLs
      /\ lastOp' = Before("remove", indexToRemove)
      /\ UserStep

\* `${newName}.${extension}` with extension = name.split(".").pop() || fallback.
renamedName(name, newName) ==
  newName \o <<".">>
    \o OrElse(SplitPop(name), IF page = "image" THEN << >> ELSE <<"h", "e", "i", "c">>)

handleRenameFile(index, newName) ==
  LET file        == files[index]
      renamedFile == File(renamedName(file.name, newName), file.type, file.bytes)
      edits == IF page = "image" /\ HasKey(fileEdits, file.name)
               THEN DeleteKey(PutKey(fileEdits, renamedFile.name, fileEdits[file.name]),
                              file.name)
               ELSE fileEdits
  IN  /\ index \in 1..Len(files)
      /\ Commit([files EXCEPT ![index] = renamedFile], convertedImages, isConverting,
                edits, editingFile, conversionProgress, expirationTime,
                pendingConversions)
      /\ objectURLs' = objectURLs
      /\ lastOp' = Before("rename", [index |-> index, newName |-> newName])
      /\ UserStep

\* The Edit button: the editor opens on the file (image and session pages).
handleEditImage(index) ==
  /\ page # "heic"
  /\ index \in 1..Len(files)
  /\ editingFile = None
  /\ Commit(files, convertedImages, isConverting, fileEdits, Some(files[index]),
            conversionProgress, expirationTime, pendingConversions)
  /\ objectURLs' = objectURLs
  /\ lastOp' = Before("edit", index)
  /\ UserStep

\* ImageEditor.handleSave: canvas.toBlob((blob) => onSave(blob, settings)) with no
\* type argument, so the edited pixels are PNG bytes.
editedBlob(file) == Blob(file.bytes.data, TRUE, "png")

\* The image page stores {blob, settings}; the session page stores the settings
\* alone.
handleSaveEdit ==
  LET entry == IF page = "image"
               THEN [blob |-> editedBlob(editingFile[1]), settings |-> "settings"]
               ELSE [settings |-> "settings"]
  IN  /\ editingFile # None
      /\ Commit(files, convertedImages, isConverting,
                PutKey(fileEdits, editingFile[1].name, entry), None,
                conversionProgress, expirationTime, pendingConversions)
      /\ objectURLs' = objectURLs
      /\ lastOp' = Before("save", 0)
      /\ UserStep

\* The URLs held by a list of records.
URLsOf(images) == {images[i].url : i \in DOMAIN images}

\* convertedImages.forEach(({ url }) => URL.revokeObjectURL(url))
handleClearAll ==
  /\ Len(files) > 0
  /\ Commit(<< >>, << >>, isConverting, NoEdits, editingFile, ZeroProgress, Null,
            pendingConversions)
  /\ objectURLs' = objectURLs \ URLsOf(convertedImages)
  /\ lastOp' = Before("clear", 0)
  /\ UserStep

\* The timer clears the state and leaves the URLs of the records as they are.
Expire_KeepsURLs ==
  /\ expirationTime # Null
  /\ Commit(<< >>, << >>, isConverting, NoEdits, editingFile, ZeroProgress, Null,
            pendingConversions)
  /\ objectURLs' = objectURLs
  /\ lastOp' = Before("expire", 0)
  /\ UserStep

\* The interval of the expiration effect finds the time reached: handleClearAll(),
\* setExpirationTime(null).
Expire ==
  /\ expirationTime # Null
  /\ Commit(<< >>, << >>, isConverting, NoEdits, editingFile, ZeroProgress, Null,
            pendingConversions)
  /\ objectURLs' = objectURLs \ URLsOf(convertedImages)
  /\ lastOp' = Before("expire", 0)
  /\ UserStep

\* ------------------------------------------------------- conversion, shared
NoBlob == Blob(0, FALSE, "none")

\* error instanceof Error ? error.message : "Conversion failed"
DecodeError == <<"ERR_LIBHEIF format not supported">>
EncodeError == <<"Failed to load image">>
NotFoundError == <<"File not found">>

\* What one activation of handleConvert holds: the files, formats and fileEdits its
\* closure captured, its position (task k, counted from 0, and the await it is
\* suspended at), and its local arrays converted and errors. log keeps, per task
\* finished, what became of it, and counted what totalConversions was when the
\* activation began.
NewCall(f, fm, fe, stage) ==
  [files |-> f, formats |-> fm, fileEdits |-> fe, k |-> 0, stage |-> stage,
   sourceBlob |-> NoBlob, tasks |-> << >>, converted |-> << >>, errors |-> << >>,
   log |-> << >>, counted |-> totalConversions]

TaskCount(c) == Len(c.files) * Len(c.formats)

RECURSIVE HeicResults(_)

\* The URLs of the records an activation has made and not published yet.
Held(c) == URLsOf(c.converted) \cup URLsOf(HeicResults(c.tasks))

HeldByCalls == UNION {Held(calls[n]) : n \in DOMAIN calls}

\* The URLs in use when activation c makes a record: those not revoked and those
\* of the records at hand.
InUse(c) == objectURLs \cup URLsOf(convertedImages) \cup HeldByCalls \cup Held(c)

\* URL.createObjectURL(convertedFile): a URL that is not in use (the first such
\* number).
createObjectURL(used) ==
  CHOOSE n \in 1..(Cardinality(used) + 1) :
    n \notin used /\ \A m \in 1..(n - 1) : m \in used

\* for (const file of files) for (const format of formats): task k.
FileOf(c) == c.files[(c.k \div Len(c.formats)) + 1]
FormatOf(c) == c.formats[(c.k % Len(c.formats)) + 1]

StartProgress(total) ==
  [totalFiles |-> total, completedFiles |-> 0, currentFile |-> << >>, errors |-> << >>]

\* `${file.name} to ${format.toUpperCase()}`
TaskLabel(file, format) == file.name \o <<" to ">> \o toUpperCase(FormatChars(format))

\* `${file.name} to ${format}: ${message}`
TaskErrorMsg(file, format, message) ==
  file.name \o <<" to ">> \o FormatChars(format) \o <<": ">> \o message

\* `${fileName}: ${message}`
FileErrorMsg(name, message) == name \o <<": ">> \o message

\* toType: format === "webp" ? "image/jpeg" : format
ToType(format) == IF format = "webp" THEN "jpeg" ELSE format

\* The finally block of a task: completedFiles: prev.completedFiles + 1,
\* errors: [...prev.errors, ...errors.slice(prev.errors.length)].
ProgressFinally(prev, errors) ==
  [prev EXCEPT !.completedFiles = @ + 1,
               !.errors = @ \o SubSeq(errors, Len(@) + 1, Len(errors))]

Done(task, file, format, record) ==
  [task |-> task, file |-> file, format |-> format, ok |-> TRUE,
   record |-> Some(record), error |-> None]

Failed(task, file, format, message) ==
  [task |-> task, file |-> file, format |-> format, ok |-> FALSE, record |-> None,
   error |-> Some(message)]

\* ------------------------------------------ ImageConverter.handleConvert
ImageRecord(file, format, finalBlob, url) ==
  [file |-> File(newFileName(file.name, format), MimeOfImage(format), finalBlob),
   url |-> url, format |-> format]

\* The activation runs from where it is to its next await (or to its end); the
\* progress updates it queues on the way are applied in order to p.
RECURSIVE ImageRun(_, _)

ImageTaskDone(c, p, finalBlob) ==
  LET record == ImageRecord(FileOf(c), FormatOf(c), finalBlob,
                            createObjectURL(InUse(c)))
  IN  ImageRun([c EXCEPT !.converted = Append(@, record),
                         !.log = Append(@, Done(c.k + 1, FileOf(c), FormatOf(c), record)),
                         !.k = @ + 1, !.stage = "task", !.sourceBlob = NoBlob],
               ProgressFinally(p, c.errors))

\* The task's failure ends the loops: nothing catches it at the task boundary.
ImageTaskFailed_Aborts(c, p, message) ==
  [call |-> [c EXCEPT !.errors = Append(@, TaskErrorMsg(FileOf(c), FormatOf(c), message)),
                      !.stage = "done"],
   progress |-> p]

ImageTaskFailed(c, p, message) ==
  LET errorMsg == TaskErrorMsg(FileOf(c), FormatOf(c), message)
      errors   == Append(c.errors, errorMsg)
  IN  ImageRun([c EXCEPT !.errors = errors,
                         !.log = Append(@, Failed(c.k + 1, FileOf(c), FormatOf(c), errorMsg)),
                         !.k = @ + 1, !.stage = "task", !.sourceBlob = NoBlob],
               ProgressFinally(p, errors))

\* if (format === "webp" || (file.type !== `image/${format}` &&
\*     !fileEdits[file.name]?.blob)) finalBlob = await convertImageFormat(...)
\* else finalBlob = sourceBlob
ImageEncodeOrPass(c, p, sourceBlob) ==
  IF \/ FormatOf(c) = "webp"
     \/ (FileOf(c).type # ImageSlash(FormatOf(c)) /\ ~HasKey(c.fileEdits, FileOf(c).name))
  THEN [call |-> [c EXCEPT !.stage = "encode", !.sourceBlob = sourceBlob], progress |-> p]
  ELSE ImageTaskDone(c, p, sourceBlob)

ImageRun(c, p) ==
  IF c.k >= TaskCount(c)
  THEN [call |-> [c EXCEPT !.stage = "done"], progress |-> p]
  ELSE LET file == FileOf(c)
           p1   == [p EXCEPT !.currentFile = TaskLabel(file, FormatOf(c))]
       IN  IF HasKey(c.fileEdits, file.name)
           THEN ImageEncodeOrPass(c, p1, c.fileEdits[file.name].blob)
           ELSE IF isHeic(file)
                THEN [call |-> [c EXCEPT !.stage = "decode"], progress |-> p1]
                ELSE ImageEncodeOrPass(c, p1, file.bytes)

\* What the step leaves behind: the activation suspended at an await, or, past the
\* loops, setConvertedImages(converted) and the finally block.
ImageCommit(r, ci, ic) ==
  IF r.call.stage = "done"
  THEN /\ Commit(files, r.call.converted, FALSE, fileEdits, editingFile,
                 [r.progress EXCEPT !.currentFile = << >>], expirationTime,
                 pendingConversions)
       /\ calls' = << >>
       /\ settled' = Some(r.call)
       /\ objectURLs' = objectURLs \cup URLsOf(r.call.converted)
       /\ totalConversions' = totalConversions + Len(r.call.converted)
       /\ toast' = Some(SummaryToast(Len(r.call.converted), Len(r.call.errors)))
  ELSE /\ Commit(files, ci, ic, fileEdits, editingFile, r.progress, expirationTime,
                 pendingConversions)
       /\ calls' = <<r.call>>
       /\ settled' = None
       /\ objectURLs' = objectURLs \cup URLsOf(r.call.converted)
       /\ totalConversions' = totalConversions
       /\ toast' = None

\* The Convert button is disabled={isConverting || files.length === 0}.
imageHandleConvert ==
  /\ page = "image"
  /\ ~isConverting
  /\ Len(files) > 0
  /\ steps < MaxSteps
  /\ steps' = steps + 1
  /\ ImageCommit(ImageRun(NewCall(files, formats, fileEdits, "task"),
                          StartProgress(Len(files) * Len(formats))),
                 << >>, TRUE)
  /\ lastOp' = Before("convert", 0)
  /\ toggled' = None
  /\ UNCHANGED <<editor, page, worker, formats, inbox>>

\* An await of the activation returns: heic2any (decode) or convertImageFormat
\* (encode) resolves (ok) or rejects.
imageResume(ok) ==
  /\ page = "image"
  /\ calls # << >>
  /\ \E r \in {LET c == calls[1]
                IN  IF c.stage = "decode"
                    THEN IF ok
                         THEN ImageEncodeOrPass(c, conversionProgress,
                                                heic2any(FileOf(c).bytes, ToType(FormatOf(c))))
                         ELSE ImageTaskFailed(c, conversionProgress, DecodeError)
                    ELSE IF ok
                         THEN ImageTaskDone(c, conversionProgress,
                                            convertImageFormat(c.sourceBlob, FormatOf(c)))
                         ELSE ImageTaskFailed(c, conversionProgress, EncodeError)} :
       ImageCommit(r, convertedImages, isConverting)
  /\ lastOp' = None
  /\ toggled' = None
  /\ UNCHANGED <<editor, page, worker, formats, inbox, steps>>


\* ------------------------------ HeicConverter.handleConvert (part_009)
\* {file, url} of a converted image.
HeicRecord(file, format, finalBlob, url) ==
  [file |-> File(replaceHeicSuffix(file.name, format), MimeOfHeic(format), finalBlob),
   url |-> url]

HeicTask(stage, blob, result) == [stage |-> stage, blob |-> blob, result |-> result]

\* files.slice(i, i + batchSize), i = c.k
HeicBatch(c) == SubSeq(c.files, c.k + 1, Min(c.k + HeicBatchSize, Len(c.files)))

\* batch.map(async (file) => ...): every task of the batch runs to its first
\* await, heic2any; each sets currentFile on the way.
HeicStartBatch(c, p) ==
  LET batch == HeicBatch(c)
  IN  [call |-> [c EXCEPT !.stage = "batch",
                          !.tasks = [t \in 1..Len(batch) |-> HeicTask("decode", NoBlob, None)]],
       progress |-> [p EXCEPT !.currentFile = batch[Len(batch)].name]]

\* batchResults.filter((result) => result !== null)
HeicResults(tasks) ==
  IF tasks = << >> THEN << >>
  ELSE Head(tasks).result \o HeicResults(Tail(tasks))

\* The next batch starts as soon as one task of the batch has returned.
HeicTaskReturns_NoPromiseAll(c, p, t, result, errors) ==
  LET file  == c.files[c.k + t]
      entry == IF result = None
               THEN Failed(c.k + t, file, c.formats[1], errors[Len(errors)])
               ELSE Done(c.k + t, file, c.formats[1], result[1])
      tasks == [c.tasks EXCEPT ![t] = HeicTask("done", NoBlob, result)]
      c1    == [c EXCEPT !.tasks = tasks, !.errors = errors, !.log = Append(@, entry)]
      p1    == ProgressFinally(p, errors)
      c2    == [c1 EXCEPT !.converted = @ \o HeicResults(tasks), !.tasks = << >>,
                          !.k = @ + HeicBatchSize]
  IN  IF c2.k < Len(c.files)
      THEN HeicStartBatch(c2, p1)
      ELSE [call |-> [c2 EXCEPT !.stage = "done"], progress |-> p1]

\* Task t of the batch returns (a record, or null after the catch block), its
\* finally block runs; with the last task of the batch Promise.all resolves, and
\* the next batch starts after the pause or the loop is over.
HeicTaskReturns(c, p, t, result, errors) ==
  LET file  == c.files[c.k + t]
      entry == IF result = None
               THEN Failed(c.k + t, file, c.formats[1], errors[Len(errors)])
               ELSE Done(c.k + t, file, c.formats[1], result[1])
      tasks == [c.tasks EXCEPT ![t] = HeicTask("done", NoBlob, result)]
      c1    == [c EXCEPT !.tasks = tasks, !.errors = errors, !.log = Append(@, entry)]
      p1    == ProgressFinally(p, errors)
      c2    == [c1 EXCEPT !.converted = @ \o HeicResults(tasks), !.tasks = << >>,
                          !.k = @ + HeicBatchSize]
  IN  IF \E u \in DOMAIN tasks : tasks[u].stage # "done"
      THEN [call |-> c1, progress |-> p1]
      ELSE IF c2.k < Len(c.files)
           THEN HeicStartBatch(c2, p1)
           ELSE [call |-> [c2 EXCEPT !.stage = "done"], progress |-> p1]

HeicCommit(r) ==
  /\ objectURLs' = objectURLs \cup Held(r.call)
  /\ IF r.call.stage = "done"
     THEN /\ Commit(files, r.call.converted, FALSE, fileEdits, editingFile,
                    [r.progress EXCEPT !.currentFile = << >>], expirationTime,
                    pendingConversions)
          /\ calls' = << >>
          /\ settled' = Some(r.call)
          /\ totalConversions' = totalConversions + Len(r.call.converted)
          /\ toast' = Some(SummaryToast(Len(r.call.converted), Len(r.call.errors)))
     ELSE /\ Commit(files, convertedImages, isConverting, fileEdits, editingFile,
                    r.progress, expirationTime, pendingConversions)
          /\ calls' = <<r.call>>
          /\ settled' = None
          /\ totalConversions' = totalConversions
          /\ toast' = None

heicHandleConvert ==
  /\ page = "heic"
  /\ ~isConverting
  /\ Len(files) > 0
  /\ steps < MaxSteps
  /\ steps' = steps + 1
  /\ Commit(files, convertedImages, TRUE, fileEdits, editingFile,
            StartProgress(Len(files)), expirationTime, pendingConversions)
  /\ calls' = <<NewCall(files, formats, NoEdits, "import")>>
  /\ objectURLs' = objectURLs
  /\ totalConversions' = totalConversions
  /\ toast' = None
  /\ settled' = None
  /\ lastOp' = Before("convert", 0)
  /\ toggled' = None
  /\ UNCHANGED <<editor, page, worker, formats, inbox>>

\* await import("heic2any") returns: the batches start, or the outer catch and
\* finally blocks run.
heicImported(ok) ==
  /\ page = "heic"
  /\ calls # << >>
  /\ calls[1].stage = "import"
  /\ IF ok
     THEN HeicCommit(HeicStartBatch(calls[1], conversionProgress))
     ELSE /\ Commit(files, convertedImages, FALSE, fileEdits, editingFile,
                    conversionProgress, expirationTime, pendingConversions)
          /\ calls' = << >>
          /\ settled' = Some([calls[1] EXCEPT !.stage = "failed"])
          /\ objectURLs' = objectURLs
          /\ totalConversions' = totalConversions
          /\ toast' = Some(ErrorToast)
  /\ lastOp' = None
  /\ toggled' = None
  /\ UNCHANGED <<editor, page, worker, formats, inbox, steps>>

\* An await of task t returns: heic2any (decode) or convertToWebP (encode).
heicTaskResumes(t, ok) ==
  /\ page = "heic"
  /\ calls # << >>
  /\ calls[1].stage = "batch"
  /\ t \in DOMAIN calls[1].tasks
  /\ calls[1].tasks[t].stage # "done"
  /\ LET c      == calls[1]
         task   == c.tasks[t]
         file   == c.files[c.k + t]
         format == c.formats[1]
         failed == Append(c.errors,
                          FileErrorMsg(file.name, IF task.stage = "decode"
                                                  THEN DecodeError ELSE EncodeError))
         blob   == heic2any(file.bytes, ToType(format))
     IN  IF ~ok
         THEN HeicCommit(HeicTaskReturns(c, conversionProgress, t, None, failed))
         ELSE IF task.stage = "decode" /\ format = "webp"
              THEN HeicCommit([call |-> [c EXCEPT !.tasks[t] = HeicTask("encode", blob, None)],
                               progress |-> conversionProgress])
              ELSE HeicCommit(HeicTaskReturns(c, conversionProgress, t,
                     Some(HeicRecord(file, format,
                                     IF task.stage = "decode" THEN blob
                                     ELSE convertToWebP(task.blob),
                                     createObjectURL(InUse(c)))),
                     c.errors))
  /\ lastOp' = None
  /\ toggled' = None
  /\ UNCHANGED <<editor, page, worker, formats, inbox, steps>>


\* ------------------------- HeicConverter.handleConvert (session page)
SessionRecord(name, format, finalBlob, url) ==
  [file |-> File(replaceHeicSuffix(name, format), MimeOfHeic(format), finalBlob),
   url |-> url, format |-> format]

\* The files of the closure workerRef.current.onmessage holds: the effect that
\* sets it runs once, after the first render, when files is the initial [].
FirstRenderFiles == << >>

\* files.find((f) => f.name === fileName)
find(fs, fileName) ==
  LET hits == {i \in 1..Len(fs) : fs[i].name = fileName}
  IN  IF hits = {} THEN None ELSE Some(fs[CHOOSE i \in hits : \A j \in hits : i <= j])

\* The messages of the dispatch loop, one per (file, format), in loop order; the
\* conversionId is the task's number.
RECURSIVE Dispatch(_, _)
Dispatch(c, k) ==
  IF k >= TaskCount(c) THEN << >>
  ELSE <<[id |-> k + 1, fileName |-> FileOf([c EXCEPT !.k = k]).name,
          format |-> FormatOf([c EXCEPT !.k = k])]>> \o Dispatch(c, k + 1)

RemoveId(pending, id) == SelectSeq(pending, LAMBDA pendingId : pendingId # id)

\* convertOnMainThread after a task: the next task runs to its await of heic2any,
\* or the loops are over.
SessionRun(c, p) ==
  IF c.k >= TaskCount(c)
  THEN [call |-> [c EXCEPT !.stage = "done"], progress |-> p]
  ELSE [call |-> [c EXCEPT !.stage = "decode"],
        progress |-> [p EXCEPT !.currentFile = TaskLabel(FileOf(c), FormatOf(c))]]

\* "Apply edits if any": the block is empty, finalBlob is what the codec gave.
SessionTaskDone(c, p, finalBlob) ==
  LET record == SessionRecord(FileOf(c).name, FormatOf(c), finalBlob,
                              createObjectURL(InUse(c)))
  IN  SessionRun([c EXCEPT !.converted = Append(@, record),
                           !.log = Append(@, Done(c.k + 1, FileOf(c), FormatOf(c), record)),
                           !.k = @ + 1, !.sourceBlob = NoBlob],
                 ProgressFinally(p, c.errors))

SessionTaskFailed(c, p, message) ==
  LET errorMsg == TaskErrorMsg(FileOf(c), FormatOf(c), message)
      errors   == Append(c.errors, errorMsg)
  IN  SessionRun([c EXCEPT !.errors = errors,
                           !.log = Append(@, Failed(c.k + 1, FileOf(c), FormatOf(c), errorMsg)),
                           !.k = @ + 1, !.sourceBlob = NoBlob],
                 ProgressFinally(p, errors))

\* The Convert button is disabled={isConverting || files.length === 0}. With a
\* worker every task is posted to it and the ids are stored; without one
\* convertOnMainThread starts and awaits its import.
sessionHandleConvert ==
  /\ page = "session"
  /\ ~isConverting
  /\ Len(files) > 0
  /\ Len(calls) < MaxCalls
  /\ steps < MaxSteps
  /\ steps' = steps + 1
  /\ LET total == Len(files) * Len(formats)
         c     == NewCall(files, formats, fileEdits, IF worker THEN "worker" ELSE "import")
         msgs  == Dispatch(c, 0)
         last  == [c EXCEPT !.k = total - 1]
     IN  IF worker
         THEN /\ Commit(files, << >>, TRUE, fileEdits, editingFile,
                        [StartProgress(total) EXCEPT
                           !.currentFile = TaskLabel(FileOf(last), FormatOf(last))],
                        expirationTime, [i \in 1..Len(msgs) |-> msgs[i].id])
              /\ inbox' = inbox \o msgs
              /\ calls' = Append(calls, c)
              /\ totalConversions' = totalConversions + Len(files) * Len(formats)
         ELSE /\ Commit(files, << >>, TRUE, fileEdits, editingFile, StartProgress(total),
                        expirationTime, pendingConversions)
              /\ inbox' = inbox
              /\ calls' = Append(calls, c)
              /\ totalConversions' = totalConversions
  /\ objectURLs' = objectURLs
  /\ toast' = None
  /\ settled' = None
  /\ lastOp' = Before("convert", 0)
  /\ toggled' = None
  /\ UNCHANGED <<editor, page, worker, formats>>

\* workerRef.current.onmessage with needsMainThreadConversion:
\* handleMainThreadConversion(id, fileName, format, quality). The file is looked up
\* in the closure's files; without it the catch block runs. After the render the
\* settlement effect may end the conversion.
workerOnMessage ==
  /\ page = "session"
  /\ inbox # << >>
  /\ calls # << >>
  /\ LET m      == Head(inbox)
         c      == calls[1]
         source == c.files[((m.id - 1) \div Len(c.formats)) + 1]
         file   == find(FirstRenderFiles, m.fileName)
         blob   == heic2any(file[1].bytes, ToType(m.format))
         record == SessionRecord(m.fileName, m.format,
                                 IF m.format = "webp" THEN convertToWebP(blob) ELSE blob,
                                 createObjectURL(InUse(c)))
         errorMsg == FileErrorMsg(m.fileName, NotFoundError)
         cp == IF file = None
               THEN [conversionProgress EXCEPT !.errors = Append(@, errorMsg),
                                               !.completedFiles = @ + 1]
               ELSE [conversionProgress EXCEPT !.completedFiles = @ + 1,
                                               !.currentFile = << >>]
         ci == IF file = None THEN convertedImages ELSE Append(convertedImages, record)
         pc == RemoveId(pendingConversions, m.id)
         c1 == [c EXCEPT !.k = @ + 1,
                         !.log = Append(@, IF file = None
                                           THEN Failed(m.id, source, m.format, errorMsg)
                                           ELSE Done(m.id, source, m.format, record))]
     IN  /\ Commit(files, ci, isConverting, fileEdits, editingFile, cp, expirationTime, pc)
         /\ toast' = EffectToast(ci, isConverting, cp, pc)
         /\ IF AllComplete(isConverting, pc, cp)
            THEN calls' = Tail(calls) /\ settled' = Some([c1 EXCEPT !.stage = "done"])
            ELSE calls' = <<c1>> \o Tail(calls) /\ settled' = None
  /\ inbox' = Tail(inbox)
  /\ objectURLs' = IF find(FirstRenderFiles, Head(inbox).fileName) = None
                   THEN objectURLs
                   ELSE objectURLs \cup {createObjectURL(InUse(calls[1]))}
  /\ lastOp' = None
  /\ toggled' = None
  /\ UNCHANGED <<editor, page, worker, formats, totalConversions, steps>>

\* An await of activation n of convertOnMainThread returns: the import, heic2any
\* (decode) or convertToWebP (encode). A rejected import leaves through
\* handleConvert's catch block: setIsConverting(false). Past the loops:
\* setConvertedImages(converted), setIsConverting(false).
sessionResume(n, ok) ==
  /\ page = "session"
  /\ n \in 1..Len(calls)
  /\ calls[n].stage \in {"import", "decode", "encode"}
  /\ \E c \in {calls[n]}, r \in
        {LET c    == calls[n]
             p    == conversionProgress
             blob == heic2any(FileOf(c).bytes, ToType(FormatOf(c)))
         IN  IF c.stage = "import"
             THEN IF ok THEN SessionRun(c, p)
                  ELSE [call |-> [c EXCEPT !.stage = "failed"], progress |-> p]
             ELSE IF ~ok
                  THEN SessionTaskFailed(c, p, IF c.stage = "decode"
                                               THEN DecodeError ELSE EncodeError)
                  ELSE IF c.stage = "decode" /\ FormatOf(c) = "webp"
                       THEN [call |-> [c EXCEPT !.stage = "encode", !.sourceBlob = blob],
                             progress |-> p]
                       ELSE SessionTaskDone(c, p, IF c.stage = "decode" THEN blob
                                                  ELSE convertToWebP(c.sourceBlob))} :
         /\ objectURLs' = objectURLs \cup URLsOf(r.call.converted)
         /\ IF r.call.stage \in {"done", "failed"}
            THEN /\ Commit(files,
                           IF r.call.stage = "done" THEN r.call.converted ELSE convertedImages,
                           FALSE, fileEdits, editingFile, r.progress, expirationTime,
                           pendingConversions)
                 /\ calls' = RemoveAt(calls, n)
                 /\ settled' = Some(r.call)
                 /\ totalConversions' =
                      IF r.call.stage = "done"
                      THEN totalConversions + Len(c.files) * Len(c.formats)
                      ELSE totalConversions
                 /\ toast' =
                      IF r.call.stage = "done"
                      THEN Some(SummaryToast(Len(r.call.converted), Len(r.call.errors)))
                      ELSE Some(ErrorToast)
            ELSE /\ Commit(files, convertedImages, isConverting, fileEdits, editingFile,
                           r.progress, expirationTime, pendingConversions)
                 /\ calls' = [calls EXCEPT ![n] = r.call]
                 /\ settled' = None
                 /\ totalConversions' = totalConversions
                 /\ toast' = EffectToast(convertedImages, isConverting, r.progress,
                                         pendingConversions)
  /\ lastOp' = None
  /\ toggled' = None
  /\ UNCHANGED <<editor, page, worker, formats, inbox, steps>>

\* ------------------------------------------------------------ the pages
Next ==
  \/ \E f \in Catalogue : handleFilesAdded(<<f>>)
  \/ \E i \in 1..MaxFiles : handleRemoveFile(i)
  \/ \E i \in 1..MaxFiles, n \in NewNames : handleRenameFile(i, n)
  \/ \E i \in 1..MaxFiles : handleEditImage(i)
  \/ handleSaveEdit
  \/ handleClearAll
  \/ Expire
  \/ imageHandleConvert
  \/ \E ok \in BOOLEAN : imageResume(ok)
  \/ heicHandleConvert
  \/ \E ok \in BOOLEAN : heicImported(ok)
  \/ \E t \in 1..MaxFiles, ok \in BOOLEAN : heicTaskResumes(t, ok)
  \/ sessionHandleConvert
  \/ workerOnMessage
  \/ \E n \in 1..MaxCalls, ok \in BOOLEAN : sessionResume(n, ok)

Spec == InitOn(Pages) /\ [][Next]_vars

\* ------------------------------------------------ the pages, with progress
\* Some files have been added; the user has two operations left.
InitLive ==
  /\ page \in Pages
  /\ worker \in (IF page = "session" THEN BOOLEAN ELSE {FALSE})
  /\ formats \in (IF page = "heic" THEN {<<f>> : f \in Formats} ELSE FormatSelections)
  /\ files \in {<<FileA>>, <<FileA, FileC>>}
  /\ convertedImages = << >>
  /\ isConverting = FALSE
  /\ fileEdits = NoEdits
  /\ editingFile = None
  /\ conversionProgress = ZeroProgress
  /\ expirationTime = <<ExpiryMinutes>>
  /\ pendingConversions = << >>
  /\ inbox = << >>
  /\ calls = << >>
  /\ objectURLs = {}
  /\ totalConversions = 0
  /\ toast = None
  /\ editor = NoEditor
  /\ settled = None
  /\ toggled = None
  /\ lastOp = None
  /\ steps = MaxSteps - 2

\* Every await of a convert call returns in the end (the import, the decoder, the
\* encoder), and every reply of the worker is delivered.
Returns ==
  /\ WF_vars(\E ok \in BOOLEAN : imageResume(ok))
  /\ WF_vars(\E ok \in BOOLEAN : heicImported(ok))
  /\ WF_vars(\E t \in 1..MaxFiles, ok \in BOOLEAN : heicTaskResumes(t, ok))
  /\ WF_vars(workerOnMessage)
  /\ WF_vars(\E n \in 1..MaxCalls, ok \in BOOLEAN : sessionResume(n, ok))

SpecLive == InitLive /\ [][Next]_vars /\ Returns

\* ----------------------------------- ConversionOptions.handleFormatChange
includes(fs, format) == \E i \in 1..Len(fs) : fs[i] = format

\* What handleFormatChange leaves as the selection.
FormatsAfterChange_NoLastGuard(fs, format, checked) ==
  IF checked THEN Append(fs, format)
  ELSE SelectSeq(fs, LAMBDA f : f # format)

FormatsAfterChange(fs, format, checked) ==
  IF checked THEN Append(fs, format)
  ELSE IF Len(fs) > 1 THEN SelectSeq(fs, LAMBDA f : f # format)
       ELSE fs

\* A click on the checkbox of format: it is rendered checked={formats.includes(
\* format)}, so onCheckedChange reports the opposite.
handleFormatChange(format, checked) ==
  /\ page # "heic"
  /\ checked = ~includes(formats, format)
  /\ steps < MaxSteps
  /\ steps' = steps + 1
  /\ formats' = FormatsAfterChange(formats, format, checked)
  /\ toggled' = Some([format |-> format, checked |-> checked])
  /\ lastOp' = Before("format", 0)
  /\ settled' = None
  /\ UNCHANGED <<editor, page, worker, files, convertedImages, isConverting, fileEdits,
                 editingFile, conversionProgress, expirationTime, pendingConversions,
                 inbox, calls, objectURLs, totalConversions, toast>>

NextOptions ==
  \E format \in Formats, checked \in BOOLEAN : handleFormatChange(format, checked)

SpecOptions == InitOn({"image", "session"}) /\ [][NextOptions]_vars

\* ------------------------------------------------- the output file's name
NameParts == {<<"a">>, <<".">>, <<"h", "e", "i", "c">>, <<"H", "E", "I", "C">>}

RECURSIVE Flatten(_)
Flatten(parts) ==
  IF parts = << >> THEN << >> ELSE Head(parts) \o Flatten(Tail(parts))

\* The file names tried: up to MaxNameParts parts.
Names ==
  {Flatten(parts) : parts \in UNION {[1..n -> NameParts] : n \in 1..MaxNameParts}}

\* One HEIC file of any name has been added and one format is selected.
InitNaming ==
  /\ page \in {"image", "session"}
  /\ worker = FALSE
  /\ formats \in {<<f>> : f \in Formats}
  /\ files \in {<<File(name, "image/heic", Blob(1, FALSE, "heic"))>> : name \in Names}
  /\ convertedImages = << >>
  /\ isConverting = FALSE
  /\ fileEdits = NoEdits
  /\ editingFile = None
  /\ conversionProgress = ZeroProgress
  /\ expirationTime = <<ExpiryMinutes>>
  /\ pendingConversions = << >>
  /\ inbox = << >>
  /\ calls = << >>
  /\ objectURLs = {}
  /\ totalConversions = 0
  /\ toast = None
  /\ editor = NoEditor
  /\ settled = None
  /\ toggled = None
  /\ lastOp = None
  /\ steps = 1

\* The converted File of the task (files[1], formats[1]) as the page builds it from
\* the codec's bytes.
convertedFile ==
  LET file      == files[1]
      format    == formats[1]
      finalBlob == convertImageFormat(heic2any(file.bytes, ToType(format)), format)
  IN  /\ convertedImages = << >>
      /\ convertedImages' =
           <<IF page = "image"
             THEN ImageRecord(file, format, finalBlob, createObjectURL(objectURLs))
             ELSE SessionRecord(file.name, format, finalBlob, createObjectURL(objectURLs))>>
      /\ objectURLs' = objectURLs \cup {createObjectURL(objectURLs)}
      /\ lastOp' = Before("name", 1)
      /\ UNCHANGED <<editor, page, worker, files, isConverting, formats, fileEdits, editingFile,
                     conversionProgress, expirationTime, pendingConversions, inbox,
                     calls, totalConversions, toast, settled, toggled, steps>>

NextNaming == convertedFile

SpecNaming == InitNaming /\ [][NextNaming]_vars

\* ------------------------------------------------------ renaming the files
\* name.replace(/\.[^/.]+$/, ""): the name without its last "." and what follows,
\* when something follows and no "/" is in it.
RemoveExtension(s) ==
  LET d == LastDot(s)
  IN  IF d > 0 /\ d < Len(s) /\ \A i \in (d + 1)..Len(s) : s[i] # "/"
      THEN SubSeq(s, 1, d - 1)
      ELSE s

\* s.replace(placeholder, by): the first occurrence; a placeholder such as
\* "{name}" is one element of the sequence.
ReplaceFirst(s, placeholder, by) ==
  LET hits == {i \in 1..Len(s) : s[i] = placeholder}
  IN  IF hits = {} THEN s
      ELSE LET i == CHOOSE h \in hits : \A g \in hits : h <= g
           IN  SubSeq(s, 1, i - 1) \o by \o SubSeq(s, i + 1, Len(s))

DigitChar(d) ==
  CASE d = 0 -> "0" [] d = 1 -> "1" [] d = 2 -> "2" [] d = 3 -> "3" [] d = 4 -> "4"
    [] d = 5 -> "5" [] d = 6 -> "6" [] d = 7 -> "7" [] d = 8 -> "8" [] d = 9 -> "9"

\* n.toString() for a natural number
RECURSIVE toString(_)
toString(n) ==
  IF n < 10 THEN <<DigitChar(n)>> ELSE toString(n \div 10) \o <<DigitChar(n % 10)>>

\* s.padStart(len, "0")
padStart(s, len) ==
  IF Len(s) >= len THEN s ELSE [i \in 1..(len - Len(s)) |-> "0"] \o s

\* What the user can set in BatchRenameDialog: the pattern, the pattern type, the
\* date format and the checkbox includeOriginalExtension; startNumber keeps its
\* initial value.
Patterns == {<<"{name}">>, <<"p">>, <<"p", "-", "{index2}">>}
PatternTypes == {"custom", "sequence", "date"}
DateFormats ==
  {<<"yyyy", "-", "MM", "-", "dd">>, <<"yyyy", "MM", "dd", "-", "HH", "mm">>}
startNumber == 1

\* new Date(): two readings of the clock, one minute apart, as getFullYear,
\* getMonth, getDate, getHours and getMinutes give them.
Date(year, month, date, hours, minutes) ==
  [year |-> year, month |-> month, date |-> date, hours |-> hours, minutes |-> minutes]
Times == <<Date(2026, 10, 5, 13, 59), Date(2026, 10, 5, 14, 0)>>

\* The readings of files.map's callbacks, one per file (n of them): the clock
\* does not go back between them.
Clocks(n) ==
  {[i \in 1..n |-> Times[at[i]]] :
     at \in {f \in [1..n -> DOMAIN Times] : \A i, j \in 1..n : i <= j => f[i] <= f[j]}}

\* dateFormat.replace("yyyy", ...).replace("MM", ...) ... .replace("mm", ...)
formattedDate(dateFormat, now) ==
  LET year    == toString(now.year)
      month   == padStart(toString(now.month + 1), 2)
      day     == padStart(toString(now.date), 2)
      hours   == padStart(toString(now.hours), 2)
      minutes == padStart(toString(now.minutes), 2)
      withYear  == ReplaceFirst(dateFormat, "yyyy", year)
      withMonth == ReplaceFirst(withYear, "MM", month)
      withDay   == ReplaceFirst(withMonth, "dd", day)
      withHours == ReplaceFirst(withDay, "HH", hours)
  IN  ReplaceFirst(withHours, "mm", minutes)

\* BatchRenameDialog, the preview effect: the name shown for files[index + 1]
\* (index counts from 0).
previewName(file, index, pattern, patternType, dateFormat, now, includeOriginalExtension) ==
  LET fileName == RemoveExtension(file.name)
      fileExt  == OrElse(SplitPop(file.name), <<"h", "e", "i", "c">>)
      typed    == IF patternType = "sequence"
                  THEN pattern \o <<"-">> \o padStart(toString(startNumber + index), 2)
                  ELSE IF patternType = "date"
                       THEN pattern \o <<"-">> \o formattedDate(dateFormat, now)
                       ELSE pattern
      named    == ReplaceFirst(typed, "{name}", fileName)
      indexed  == ReplaceFirst(named, "{index}", toString(index + 1))
      indexed2 == ReplaceFirst(indexed, "{index2}", padStart(toString(index + 1), 2))
      newName  == ReplaceFirst(indexed2, "{index3}", padStart(toString(index + 1), 3))
  IN  IF includeOriginalExtension THEN newName \o <<".">> \o fileExt ELSE newName

\* BatchRenameDialog.handleSubmit: newName of the pair made for files[i].
submittedName(file, index, pattern, patternType, dateFormat, now, includeOriginalExtension) ==
  RemoveExtension(previewName(file, index, pattern, patternType, dateFormat, now,
                              includeOriginalExtension))

\* handleBatchRename: every file of the list has a pair (found by identity), so
\* every file is replaced. On the ImageConverter page the edits move to the new
\* names (renameMap: old name -> new name, the last file of a name decides; when
\* two edits arrive at one name, the later entry of Object.entries decides, which
\* the model leaves open); the session page leaves fileEdits alone.
handleBatchRename(pattern, patternType, dateFormat, clock, includeOriginalExtension) ==
  LET renamedTo(i) ==
        submittedName(files[i], i - 1, pattern, patternType, dateFormat, clock[i],
                      includeOriginalExtension)
          \o <<".">>
          \o OrElse(SplitPop(files[i].name),
                    IF page = "image" THEN << >> ELSE <<"h", "e", "i", "c">>)
      updatedFiles ==
        [i \in 1..Len(files) |-> File(renamedTo(i), files[i].type, files[i].bytes)]
      hasName(old) == {i \in 1..Len(files) : files[i].name = old}
      renameMap(old) ==
        IF hasName(old) = {} THEN old
        ELSE renamedTo(CHOOSE i \in hasName(old) : \A j \in hasName(old) : j <= i)
      newKeys == {renameMap(old) : old \in DOMAIN fileEdits}
      values  == {fileEdits[old] : old \in DOMAIN fileEdits}
      newEdits ==
        {ne \in [newKeys -> values] :
           \A k \in newKeys :
             \E old \in DOMAIN fileEdits : renameMap(old) = k /\ ne[k] = fileEdits[old]}
  IN  /\ page # "heic"
      /\ Len(files) > 0
      /\ steps < MaxSteps
      /\ \E ne \in (IF page = "image" THEN newEdits ELSE {fileEdits}) :
           Commit(updatedFiles, convertedImages, isConverting, ne, editingFile,
                  conversionProgress, expirationTime, pendingConversions)
      /\ objectURLs' = objectURLs
      /\ lastOp' = Before("batchRename",
                          [pattern |-> pattern, patternType |-> patternType,
                           dateFormat |-> dateFormat,
                           clock |-> SubSeq(clock, 1, Len(files)),
                           includeOriginalExtension |-> includeOriginalExtension])
      /\ UserStep

\* The file names the renames are tried on.
RenameNames ==
  {<<"a", ".", "h", "e", "i", "c">>, <<"n", ".", "h", "e", "i", "c">>, <<"c">>,
   <<"a", ".">>}

\* The edit the page stores for a file (see handleSaveEdit).
savedEdit(file) ==
  IF page = "image" THEN [blob |-> editedBlob(file), settings |-> "settings"]
  ELSE [settings |-> "settings"]

\* Some HEIC files have been added and some of them edited.
InitRename ==
  /\ page \in Pages
  /\ worker = FALSE
  /\ formats = <<"jpeg">>
  /\ files \in UNION {[1..n -> {File(name, "image/heic", Blob(1, FALSE, "heic")) :
                                  name \in RenameNames}] : n \in 1..MaxFiles}
  /\ fileEdits \in
       {[name \in edited |-> savedEdit(files[CHOOSE i \in 1..Len(files) : files[i].name = name])] :
          edited \in (IF page = "heic" THEN {{}}
                      ELSE SUBSET {files[i].name : i \in 1..Len(files)})}
  /\ convertedImages = << >>
  /\ isConverting = FALSE
  /\ editingFile = None
  /\ conversionProgress = ZeroProgress
  /\ expirationTime = <<ExpiryMinutes>>
  /\ pendingConversions = << >>
  /\ inbox = << >>
  /\ calls = << >>
  /\ objectURLs = {}
  /\ totalConversions = 0
  /\ toast = None
  /\ editor = NoEditor
  /\ settled = None
  /\ toggled = None
  /\ lastOp = None
  /\ steps = MaxSteps - 1

NextRename ==
  \/ \E i \in 1..MaxFiles, n \in NewNames : handleRenameFile(i, n)
  \/ \E pattern \in Patterns, patternType \in PatternTypes, dateFormat \in DateFormats,
        clock \in Clocks(MaxFiles), keep \in BOOLEAN :
       handleBatchRename(pattern, patternType, dateFormat, clock, keep)

SpecRename == InitRename /\ [][NextRename]_vars

\* ------------------------------------------------------------- ImageEditor
\* The sizes of the images the editor is opened on, and the canvas coordinates
\* the mouse events arrive at (all lie on the canvas of every image).
ImageSizes == {Size(200, 100), Size(100, 200), Size(100, 100)}
Coords == {0, 50, 70, 100}

Abs(n) == IF n < 0 THEN 0 - n ELSE n

\* The editor's handlers leave the page's state alone.
EditorFrame ==
  UNCHANGED <<page, worker, files, convertedImages, isConverting, formats, fileEdits,
              editingFile, conversionProgress, expirationTime, pendingConversions,
              inbox, calls, objectURLs, totalConversions, toast, settled, toggled,
              lastOp, steps>>

\* A click on the button of an angle: setRotation(angle). The load effect runs
\* again (rotation is among its dependencies): canvas.width = img.width,
\* canvas.height = img.height, then drawImage, which turns the picture inside
\* the canvas.
setRotation(angle) ==
  /\ editor.saved = None
  /\ editor' = [editor EXCEPT !.rotation = angle, !.canvas = editor.img]
  /\ EditorFrame

\* "Start Cropping" / "Cancel Crop".
toggleCropping ==
  /\ editor.saved = None
  /\ editor' = [editor EXCEPT !.isCropping = ~editor.isCropping,
                              !.cropRect = IF ~editor.isCropping THEN Rect(0, 0, 0, 0)
                                           ELSE @]
  /\ EditorFrame

handleMouseDown(x, y) ==
  /\ editor.saved = None
  /\ editor.isCropping
  /\ editor' = [editor EXCEPT !.cropStart = Some([x |-> x, y |-> y]),
                              !.cropRect = Rect(x, y, 0, 0)]
  /\ EditorFrame

handleMouseMove(x, y) ==
  /\ editor.saved = None
  /\ editor.isCropping
  /\ editor.cropStart # None
  /\ editor' = [editor EXCEPT
                  !.cropRect = Rect(editor.cropStart[1].x, editor.cropStart[1].y,
                                    x - editor.cropStart[1].x, y - editor.cropStart[1].y)]
  /\ EditorFrame

handleMouseUp ==
  /\ editor.saved = None
  /\ editor.isCropping
  /\ editor' = [editor EXCEPT !.cropStart = None]
  /\ EditorFrame

\* The rectangle is used as it was dragged.
handleSave_AsDragged ==
  LET cropRect == editor.cropRect
      crops  == editor.isCropping /\ cropRect.width # 0 /\ cropRect.height # 0
      canvas == IF crops THEN Size(cropRect.width, cropRect.height) ELSE editor.canvas
  IN  /\ editor.saved = None
      /\ editor' = [editor EXCEPT
                      !.canvas = canvas,
                      !.saved = Some([width |-> canvas.width, height |-> canvas.height,
                                      region |-> IF crops THEN Some(cropRect) ELSE None,
                                      rotation |-> editor.rotation])]
      /\ EditorFrame

\* handleSave: with a crop the canvas is replaced by the region cut from it; then
\* canvas.toBlob hands the canvas to onSave.
handleSave ==
  LET cropRect == editor.cropRect
      x      == IF cropRect.width > 0 THEN cropRect.x ELSE cropRect.x + cropRect.width
      y      == IF cropRect.height > 0 THEN cropRect.y ELSE cropRect.y + cropRect.height
      width  == Abs(cropRect.width)
      height == Abs(cropRect.height)
      crops  == editor.isCropping /\ cropRect.width # 0 /\ cropRect.height # 0
      canvas == IF crops THEN Size(width, height) ELSE editor.canvas
  IN  /\ editor.saved = None
      /\ editor' = [editor EXCEPT
                      !.canvas = canvas,
                      !.saved = Some([width |-> canvas.width, height |-> canvas.height,
                                      region |-> IF crops THEN Some(Rect(x, y, width, height))
                                                 ELSE None,
                                      rotation |-> editor.rotation])]
      /\ EditorFrame

\* The editor has been opened on the one file of the list and its image loaded.
InitEditor ==
  /\ page = "image"
  /\ worker = FALSE
  /\ formats = <<"jpeg">>
  /\ files = <<FileC>>
  /\ convertedImages = << >>
  /\ isConverting = FALSE
  /\ fileEdits = NoEdits
  /\ editingFile = Some(FileC)
  /\ conversionProgress = ZeroProgress
  /\ expirationTime = <<ExpiryMinutes>>
  /\ pendingConversions = << >>
  /\ inbox = << >>
  /\ calls = << >>
  /\ objectURLs = {}
  /\ totalConversions = 0
  /\ toast = None
  /\ editor \in {OpenEditor(img) : img \in ImageSizes}
  /\ settled = None
  /\ toggled = None
  /\ lastOp = None
  /\ steps = 1

NextEditor ==
  \/ \E angle \in {0, 90, 180, 270} : setRotation(angle)
  \/ toggleCropping
  \/ \E x \in Coords, y \in Coords : handleMouseDown(x, y)
  \/ \E x \in Coords, y \in Coords : handleMouseMove(x, y)
  \/ handleMouseUp
  \/ handleSave

SpecEditor == InitEditor /\ [][NextEditor]_vars

\* ------------------------------------------------- the order of the tasks
\* One file more than a batch of HeicConverter holds.
BatchFileCount == HeicBatchSize + 1

\* The files are there and nothing has been converted yet; on HeicConverter's
\* page the list needs a second batch.
InitBatches ==
  /\ page \in Pages
  /\ worker \in (IF page = "session" THEN BOOLEAN ELSE {FALSE})
  /\ formats \in (IF page = "heic" THEN {<<"jpeg">>} ELSE {<<"jpeg">>, <<"png", "jpeg">>})
  /\ files = IF page = "heic" THEN [i \in 1..BatchFileCount |-> FileA] ELSE <<FileA, FileC>>
  /\ convertedImages = << >>
  /\ isConverting = FALSE
  /\ fileEdits = NoEdits
  /\ editingFile = None
  /\ conversionProgress = ZeroProgress
  /\ expirationTime = <<ExpiryMinutes>>
  /\ pendingConversions = << >>
  /\ inbox = << >>
  /\ calls = << >>
  /\ objectURLs = {}
  /\ totalConversions = 0
  /\ toast = None
  /\ editor = NoEditor
  /\ settled = None
  /\ toggled = None
  /\ lastOp = None
  /\ steps = MaxSteps - 1

NextBatches ==
  \/ imageHandleConvert
  \/ \E ok \in BOOLEAN : imageResume(ok)
  \/ heicHandleConvert
  \/ \E ok \in BOOLEAN : heicImported(ok)
  \/ \E t \in 1..HeicBatchSize, ok \in BOOLEAN : heicTaskResumes(t, ok)
  \/ sessionHandleConvert
  \/ workerOnMessage
  \/ \E n \in 1..MaxCalls, ok \in BOOLEAN : sessionResume(n, ok)

SpecBatches == InitBatches /\ [][NextBatches]_vars

\* The tasks of activation c are numbered in loop order from 1; TaskFile is the
\* place in the list of the file a task belongs to. Started: the tasks that have
\* begun to run (the tasks before c.k, the task suspended at an await, the tasks
\* of the batch under way); Completed: the tasks whose record or error is
\* decided.
TaskFile(c, t) == ((t - 1) \div Len(c.formats)) + 1
Completed(c) == {c.log[i].task : i \in DOMAIN c.log}
Started(c) ==
  1..Min(TaskCount(c),
         IF c.stage = "batch" THEN c.k + Len(c.tasks)
         ELSE IF c.stage \in {"decode", "encode"} THEN c.k + 1
         ELSE c.k)

\* -------------------------------------------------------------- properties
\* The activation whose loops ended in the last step.
HasSettled == settled # None /\ settled[1].stage = "done"
SettledCall == settled[1]

FailedTasks(c) == {i \in DOMAIN c.log : ~c.log[i].ok}
DoneTasks(c) == {i \in DOMAIN c.log : c.log[i].ok}

Count(seq, x) == Cardinality({i \in DOMAIN seq : seq[i] = x})
IsPrefix(a, b) == Len(a) <= Len(b) /\ SubSeq(b, 1, Len(a)) = a
Contains(s, sub) ==
  \E i \in 0..(Len(s) - Len(sub)) : SubSeq(s, i + 1, i + Len(sub)) = sub

\* jpeg -> image/jpeg, png -> image/png, webp -> image/webp
FixedMime(format) ==
  CASE format = "jpeg" -> "image/jpeg" [] format = "png" -> "image/png"
    [] format = "webp" -> "image/webp"

\* The base (what precedes the last ".", the whole name when it holds none), "."
\* and the format.
BaseDotFormat(name, format) ==
  LET base == IF LastDot(name) = 0 THEN name ELSE SubSeq(name, 1, LastDot(name) - 1)
  IN  base \o <<".">> \o FormatChars(format)

\* C1: when a convert call settles, completedFiles equals the number of files the
\* call took times the number of formats it took, whatever tasks failed.
C1_CompletedEqualsTasksAtSettlement ==
  HasSettled => conversionProgress.completedFiles = TaskCount(SettledCall)

C3_CompletedWithinTotal ==
  /\ 0 <= conversionProgress.completedFiles
  /\ conversionProgress.completedFiles <= conversionProgress.totalFiles

\* C4: while a convert call is in flight no step lowers completedFiles or takes an
\* entry out of errors: errors only grows at its end. (The step that starts a
\* convert call, which resets the progress, is not one of these steps.)
C4_ProgressOnlyGrowsInFlight ==
  [][(calls # << >> /\ Len(calls') <= Len(calls)) =>
       /\ conversionProgress'.completedFiles >= conversionProgress.completedFiles
       /\ IsPrefix(conversionProgress.errors, conversionProgress'.errors)]_vars

\* C5: a task that fails leaves one error entry that names its file and its
\* format and no record, and the tasks after it still run: at settlement every task
\* of the call has run.
C5_FailedTaskNamesFileAndFormat ==
  HasSettled =>
    LET c == SettledCall
    IN  /\ Len(c.log) = TaskCount(c)
        /\ Len(convertedImages) <= Cardinality(DoneTasks(c))
        /\ \A i \in FailedTasks(c) :
             /\ Contains(c.log[i].error[1], c.log[i].file.name)
             /\ Contains(c.log[i].error[1], FormatChars(c.log[i].format))

\* C6: when a convert call settles, the message of each task of it that failed is
\* in conversionProgress.errors exactly once (as often as tasks failed with that
\* very message), and nothing else is.
C6_EachFailureListedOnce ==
  HasSettled =>
    LET c == SettledCall
    IN  /\ \A i \in FailedTasks(c) :
             Count(conversionProgress.errors, c.log[i].error[1])
               = Cardinality({j \in FailedTasks(c) : c.log[j].error = c.log[i].error})
        /\ Len(conversionProgress.errors) = Cardinality(FailedTasks(c))

\* C7: if an edit was stored under a file's name when the convert call started,
\* every record of that file comes from the edited pixels, for every format.
C7_RecordsComeFromTheEdit ==
  HasSettled =>
    \A i \in DoneTasks(SettledCall) :
      HasKey(SettledCall.fileEdits, SettledCall.log[i].file.name)
        => SettledCall.log[i].record[1].file.bytes.edited

\* C8: the bytes of every record are encoded in the record's format and its MIME
\* type is the fixed mapping of the format.
C8_BytesAndMimeMatchFormat ==
  HasSettled =>
    \A i \in DoneTasks(SettledCall) :
      LET entry == SettledCall.log[i]
      IN  /\ entry.record[1].file.bytes.enc = entry.format
          /\ entry.record[1].file.type = FixedMime(entry.format)

\* C9: the converted file's name is the base of the input name (what precedes its
\* last ".", the whole name when it holds none), then "." and the format.
C9_NameIsBaseDotFormat ==
  \A i \in DOMAIN convertedImages :
    convertedImages[i].file.name
      = BaseDotFormat(files[1].name, convertedImages[i].format)

\* C10: the format selection never becomes empty, and unchecking the only selected
\* format leaves the selection as it was.
C10_SelectionStaysNonEmpty ==
  [][/\ formats # << >> => formats' # << >>
     /\ \A format \in Formats :
          (formats = <<format>>
             /\ toggled' = Some([format |-> format, checked |-> FALSE]))
            => formats' = formats]_vars

\* C10, its case: the only selected format has just been unchecked.
C10_Witness ==
  /\ toggled = Some([format |-> "jpeg", checked |-> FALSE])
  /\ formats = <<"jpeg">>

\* C11: every URL that has not been revoked belongs to a record of the output
\* set (or to a record a convert call in flight has yet to publish): no URL of a
\* discarded record stays unreleased.
C11_NoHandleOutlivesItsRecord ==
  \A url \in objectURLs : url \in URLsOf(convertedImages) \cup HeldByCalls

\* C12: the step of the expiration timer leaves no file, no edit and no converted
\* record, revokes the URL of every record there was, and clears the expiration
\* time.
C12_ExpiryClearsEverything ==
  (lastOp # None /\ lastOp[1].op = "expire") =>
    /\ files = << >>
    /\ fileEdits = NoEdits
    /\ convertedImages = << >>
    /\ expirationTime = Null
    /\ URLsOf(lastOp[1].convertedImages) \cap objectURLs = {}

\* C12, its case: the timer has fired on a session that held a file, an edit and
\* a converted record.
C12_Witness ==
  /\ lastOp # None
  /\ lastOp[1].op = "expire"
  /\ lastOp[1].files # << >>
  /\ lastOp[1].fileEdits # NoEdits
  /\ lastOp[1].convertedImages # << >>

Distinct(fs) == \A i, j \in 1..Len(fs) : fs[i].name = fs[j].name => i = j
Renamed(b) == IF b.op = "rename" THEN {b.arg.index} ELSE 1..Len(b.files)
C14_EditsFollowTheRename ==
  (/\ lastOp # None
   /\ lastOp[1].op \in {"rename", "batchRename"}
   /\ Distinct(lastOp[1].files) /\ Distinct(files)) =>
    LET b == lastOp[1]
    IN  /\ Len(files) = Len(b.files)
        /\ \A i \in 1..Len(files) :
             HasKey(b.fileEdits, b.files[i].name) =>
               /\ HasKey(fileEdits, files[i].name)
               /\ fileEdits[files[i].name] = b.fileEdits[b.files[i].name]
               /\ i \notin Renamed(b) => files[i].name = b.files[i].name
        /\ \A k \in DOMAIN fileEdits :
             (\E i \in 1..Len(b.files) : b.files[i].name = k) =>
               \E i \in 1..Len(files) : files[i].name = k

\* The extension of a name, its "." included: what stands from the last "." on,
\* nothing when the name holds no ".".
ExtensionOf(name) ==
  IF LastDot(name) = 0 THEN << >> ELSE SubSeq(name, LastDot(name), Len(name))

\* C15: renameFile(index, newBaseName) replaces exactly the file at index by a
\* file whose name is newBaseName followed by the original file's extension
\* verbatim and whose MIME type is the original's; the other files and the order
\* of the list are unchanged.
C15_RenameKeepsExtensionAndType ==
  (lastOp # None /\ lastOp[1].op = "rename") =>
    LET b   == lastOp[1]
        i   == b.arg.index
        old == b.files[i]
    IN  /\ Len(files) = Len(b.files)
        /\ files[i].name = b.arg.newName \o ExtensionOf(old.name)
        /\ files[i].type = old.type
        /\ \A j \in 1..Len(files) : j # i => files[j] = b.files[j]

\* C16: after a batch rename a file's name is the resolved pattern followed by
\* "." and the original file's extension (the fallback "heic" when it has none)
\* if keepExtension (includeOriginalExtension) is true, and the resolved pattern
\* alone, with no extension, if it is false.
C16_ExtensionOnlyIfKept ==
  (lastOp # None /\ lastOp[1].op = "batchRename") =>
    LET b == lastOp[1]
        a == b.arg
    IN  /\ Len(files) = Len(b.files)
        /\ \A i \in 1..Len(files) :
             LET old      == b.files[i].name
                 resolved == previewName(b.files[i], i - 1, a.pattern, a.patternType,
                                         a.dateFormat, a.clock[i], FALSE)
                 ext      == IF LastDot(old) = 0 \/ LastDot(old) = Len(old)
                             THEN <<"h", "e", "i", "c">>
                             ELSE SplitPop(old)
             IN  files[i].name = IF a.includeOriginalExtension
                                 THEN resolved \o <<".">> \o ext
                                 ELSE resolved

\* C17: when a convert call has settled, totalConversions is what it was when the
\* call began plus the number of records the call produced; the tasks that
\* failed add nothing.
C17_CounterGrowsByRecords ==
  HasSettled =>
    totalConversions = SettledCall.counted + Cardinality(DoneTasks(SettledCall))

\* C18: the summary shown to the user is shown when a convert call settles and
\* tells that call's outcome: "failed" when the call produced no record, success
\* with the number of records and the number of failures when it produced records
\* and some tasks failed, success with the number of records alone when none
\* failed.
C18_SummaryTellsTheBatch ==
  /\ HasSettled =>
       LET records == Cardinality(DoneTasks(SettledCall))
           errors  == Cardinality(FailedTasks(SettledCall))
       IN  /\ toast # None
           /\ records = 0 =>
                /\ toast[1].title = "Conversion failed"
                /\ toast[1].description = <<"No files were converted successfully.">>
           /\ (records > 0 /\ errors > 0) =>
                /\ toast[1].title = "Conversion complete"
                /\ toast[1].description =
                     <<"Successfully converted", records, errors, "failed">>
           /\ (records > 0 /\ errors = 0) =>
                /\ toast[1].title = "Conversion complete"
                /\ toast[1].description = <<"Successfully converted", records>>
  /\ (toast # None /\ toast[1] # ErrorToast) => HasSettled

BatchOf(c, t) == ((TaskFile(c, t) - 1) \div HeicBatchSize) + 1
C20_ReencodeIffEncodingDiffers ==
  HasSettled =>
    \A i \in DoneTasks(SettledCall) :
      LET entry     == SettledCall.log[i]
          bytes     == entry.record[1].file.bytes
          reencoded == bytes.encodedFrom # None
          payload   == IF reencoded THEN bytes.encodedFrom[1] ELSE bytes.enc
      IN  reencoded <=> (entry.format = "webp" \/ entry.format # payload)

\* C21: an edit saved with rotation 90 or 270 (and no crop) has the source
\* image's height as its width and the source's width as its height; with
\* rotation 0 or 180 it has the source's dimensions.
C21_QuarterTurnSwapsDimensions ==
  (editor.saved # None /\ editor.saved[1].region = None) =>
    LET saved == editor.saved[1]
    IN  IF saved.rotation \in {90, 270}
        THEN saved.width = editor.img.height /\ saved.height = editor.img.width
        ELSE saved.width = editor.img.width /\ saved.height = editor.img.height

\* C22: saving in crop mode with a rectangle of non-zero width and height cuts
\* out the region x + min(width, 0), y + min(height, 0), |width|, |height|, whose
\* width and height are positive, and the saved blob has the region's size; the
\* rectangle {100, 100, -50, -30} gives the region {50, 70, 50, 30}.
C22_CropIsNormalised ==
  (/\ editor.saved # None
   /\ editor.isCropping
   /\ editor.cropRect.width # 0
   /\ editor.cropRect.height # 0) =>
    LET r     == editor.cropRect
        saved == editor.saved[1]
    IN  /\ saved.region # None
        /\ saved.region[1] = Rect(r.x + Min(r.width, 0), r.y + Min(r.height, 0),
                                  Abs(r.width), Abs(r.height))
        /\ saved.region[1].width > 0 /\ saved.region[1].height > 0
        /\ saved.width = saved.region[1].width
        /\ saved.height = saved.region[1].height
        /\ r = Rect(100, 100, -50, -30) => saved.region[1] = Rect(50, 70, 50, 30)
C22_Witness ==
  /\ editor.saved # None
  /\ editor.isCropping
  /\ editor.cropRect = Rect(100, 100, -50, -30)
  /\ editor.saved[1].region = Some(Rect(50, 70, 50, 30))

C24_LabelEmptyBetweenCalls ==
  calls = << >> => conversionProgress.currentFile = << >>

\* C25: on the worker path a task fails with "File not found" only if no file of
\* the task's file name was in the list when the convert call started; a task
\* whose file is in the list gets a record made from that file.
C25_NotFoundOnlyIfAbsent ==
  worker =>
    \A n \in DOMAIN calls :
      \A i \in DOMAIN calls[n].log :
        LET c     == calls[n]
            entry == c.log[i]
        IN  find(c.files, entry.file.name) # None =>
              /\ entry.error # Some(FileErrorMsg(entry.file.name, NotFoundError))
              /\ entry.ok =>
                   entry.record[1].file.bytes.data
                     = find(c.files, entry.file.name)[1].bytes.data

\* C26: a convert call that has started settles: if every await returns and
\* every reply of the worker arrives, a state follows in which no call is in
\* flight and isConverting is false.
C26_EveryCallSettles ==
  (isConverting \/ calls # << >>) ~> (~isConverting /\ calls = << >>)
C26_Witness ==
  /\ HasSettled
  /\ FailedTasks(SettledCall) # {}
  /\ ~isConverting
  /\ calls = << >>
  /\ inbox = << >>

\* C27: while a convert call has a task that has not completed, isConverting is
\* true, and the summary of a call is shown when the call settles, not while
\* one of its tasks is still to come.
C27_ConvertingUntilLastTask ==
  /\ calls # << >> => isConverting
  /\ (toast # None /\ toast[1] # ErrorToast) => (HasSettled /\ calls = << >>)

\* C28: right after clearAll or the expiry has run while a convert call was in
\* flight, a further step of that call (an await returning, a reply of the worker)
\* leaves the output records empty and the progress counters at zero.
C28_ClearedSessionStaysCleared ==
  [][(/\ lastOp # None
      /\ lastOp[1].op \in {"clear", "expire"}
      /\ calls # << >>
      /\ steps' = steps)
     => /\ convertedImages' = << >>
        /\ conversionProgress'.completedFiles = 0
        /\ conversionProgress'.totalFiles = 0
        /\ conversionProgress'.errors = << >>]_vars

\* C29: whenever the session holds an input file or an output record, an
\* expiration time is set.
C29_ExpiryPendingWhileDataHeld ==
  (files # << >> \/ convertedImages # << >>) => expirationTime # Null

\* C30: removeFile(index) takes the file at that index out of the list and leaves
\* every other file in its place in the order, with the edit it had before, also
\* when two files of the list have the same name.
C30_RemoveKeepsTheOthers ==
  (lastOp # None /\ lastOp[1].op = "remove") =>
    LET before == lastOp[1]
    IN  /\ files = RemoveAt(before.files, before.arg)
        /\ \A j \in DOMAIN files :
             HasKey(before.fileEdits, files[j].name) =>
               /\ HasKey(fileEdits, files[j].name)
               /\ fileEdits[files[j].name] = before.fileEdits[files[j].name]

====
